---- MODULE Spec2Model ----
(***************************************************************************)
(* WFLY Music server (src/server.js): session manager, realtime            *)
(* connection registry / broadcast router and playback state store.        *)
(*                                                                         *)
(* Time is counted in seconds.  Every "await" of a handler is a point      *)
(* where other handlers may run, so a handler is a sequence of actions,    *)
(* one per database operation, and the code that runs synchronously after  *)
(* an operation resolves belongs to the action of that operation.          *)
(***************************************************************************)
EXTENDS Integers, Sequences, FiniteSets, TLC

\* ------------------------------------------------------------------------
\* Bounds of the model
\* ------------------------------------------------------------------------
MaxSecrets == 2      \* refresh secrets generated (logins + registrations)
MaxAuthTasks == 2    \* auth requests in flight at the same time

MaxSyncTasks == 2    \* realtime / player handlers in flight at the same time
MaxOps == 3          \* messages and player requests received

MaxTracks == 1       \* track records created
MaxStreams == 2      \* stream requests served

\* ------------------------------------------------------------------------
\* Program constants
\* ------------------------------------------------------------------------
ACCESS_TTL_SEC == 900
REFRESH_TTL_SEC == 2592000
CHUNK == 1024 * 1024     \* default length of a range without end

\* ------------------------------------------------------------------------
\* Input alphabets
\* ------------------------------------------------------------------------
EmailInputs == {"a@x.io", "A@X.IO"}
UsernameInputs == {"art", "ART"}
PasswordInputs == {"password1", "wrongpass"}
GoodPassword == "password1"
\* The instants at which the server is observed.
Clock == {0, ACCESS_TTL_SEC, REFRESH_TTL_SEC + 1}

\* Connection ids (nanoid) and device ids.  Track id strings are "aaaa" and
\* "AAAA" (two spellings of one 24-digit hex id), "bbbb" (another id) and
\* "zzzz" (24 characters that are not hex).
Conns == {"c1", "c2"}
Devices == {"dev1", "dev2"}
CmdInputs == {"play"}

NoUid == 0
NoSecret == [head |-> 0, tail |-> 0]

VARIABLES
    colUsers,      \* users collection: set of [id, email, password, role]
    colArtists,    \* artists collection: set of [id, username, password]
    colSessions,   \* sessions collection, in natural (insertion) order
    now,           \* Date.now(), in seconds
    nextId,        \* next ObjectId handed out by insertOne
    nextSecret,    \* next value of crypto.randomBytes in generateRefresh
    tokens,        \* access tokens signed with JWT_SECRET and held by clients
    authTasks,     \* auth requests suspended at an await
    lastResp,      \* the HTTP response sent by the last step (NoResp: none)
    issued,        \* <<secret head, uid>> of every secret returned to a client
    fresh,         \* secrets returned to a client and not superseded since
    revoked,       \* secrets issued to a listener before a completed logout
    WS_CLIENTS,    \* the connection registry: set of [id, uid, deviceId]
    wsReady,       \* ws.readyState of each connection's socket
    colStates,     \* player_states collection: set of documents
    syncTasks,     \* realtime and player handlers suspended at an await
    sent,          \* what the last step sent: a message and the connections
    event,         \* what the last step was and what it answered
    ops,           \* messages and player requests received so far
    recorded,      \* per listener, the last value every state update set
    colTracks,     \* tracks collection: set of [id, fileRel, plays]
    files,         \* the file system: size of every file, by absolute path
    playsPending,  \* per track id, the play-count updates in flight
    streamResp,    \* the last response of the stream and track endpoints
    streams        \* stream requests served so far

authVars == <<colUsers, colArtists, colSessions, now, nextId,
              nextSecret, tokens, authTasks, lastResp, issued, fresh, revoked>>

syncVars == <<WS_CLIENTS, wsReady, colStates, syncTasks, sent, event, ops, recorded>>

vars == <<colUsers, colArtists, colSessions, now, nextId,
          nextSecret, tokens, authTasks, lastResp, issued, fresh, revoked,
          WS_CLIENTS, wsReady, colStates, syncTasks, sent, event, ops,
          recorded, colTracks, files, playsPending, streamResp, streams>>

streamVars == <<colTracks, files, playsPending, streamResp, streams>>

\* ------------------------------------------------------------------------
\* Pure helpers
\* ------------------------------------------------------------------------

\* String.prototype.toLowerCase on the login identifiers of the alphabets.
toLowerCase(s) ==
    CASE s = "A@X.IO" -> "a@x.io"
      [] s = "ART" -> "art"
      [] OTHER -> s

\* A refresh secret is 96 hex characters.  head stands for its first 72
\* characters and tail for the remaining 24.
generateRefresh(n) == [head |-> n, tail |-> 0]

\* A fingerprint taken over the first 72 characters only.
fpTokenTruncated(raw) == <<"sha256", raw.head, 0>>

\* sha256 over the whole secret.
fpToken(raw) == <<"sha256", raw.head, raw.tail>>

\* bcryptjs hashes the first 72 bytes of its input only.
hashToken(raw) == <<"bcrypt", raw.head>>

\* bcrypt.compareSync(raw, hash)
compareSync(raw, hash) == hash = <<"bcrypt", raw.head>>

\* bcrypt of a (short) password, and its comparison.
hashPassword(pw) == <<"bcrypt", pw>>
comparePassword(pw, hash) == hash = <<"bcrypt", pw>>

\* jwt.sign({uid, role}, JWT_SECRET, {expiresIn: ACCESS_TTL_SEC})
signAccess(uid, role, t) == [uid |-> uid, role |-> role, exp |-> t + ACCESS_TTL_SEC]

\* A verification that accepts any token.
jwtVerifyAny(tok, t) == TRUE

\* jwt.verify: the signature is ours (the token is one we signed) and the
\* token has not expired.
jwtVerify(tok, t) == tok \in tokens /\ t < tok.exp

\* A client keeps the newest token per identity and role; an older token of
\* the same identity and role is accepted whenever the newer one is.
HoldToken(tok) ==
    {t \in tokens : ~(t.uid = tok.uid /\ t.role = tok.role /\ t.exp <= tok.exp)}
        \cup {tok}

Indexes(seq, P(_)) == {i \in 1..Len(seq) : P(seq[i])}
Min(S) == CHOOSE x \in S : \A y \in S : x <= y

\* findOne / updateOne on the sessions collection take the first matching
\* document in index order, which for equal keys is insertion order.
SessByUid(uid) == Indexes(colSessions, LAMBDA s : s.uid = uid)

\* verifyRefreshByFp: findOne({refreshFp: fp, disabled: {$ne: true}})
verifyRefreshByFp(fp) ==
    Indexes(colSessions, LAMBDA s : s.refreshFp = fp /\ s.disabled # "true")

NewSession(uid, raw, exp, disabled, userType) ==
    [uid |-> uid, refreshHash |-> hashToken(raw), refreshFp |-> fpToken(raw),
     expiresAt |-> exp, disabled |-> disabled, userType |-> userType]

\* ------------------------------------------------------------------------
\* Request bookkeeping
\* ------------------------------------------------------------------------
Task(kind, pc, login, uid, secret, exp) ==
    [kind |-> kind, pc |-> pc, login |-> login, uid |-> uid, secret |-> secret,
     expiresAt |-> exp]

\* A response: status and error text, the claims of the access token it carries
\* (uid, role), the identity it is about (owner), and what was true of the
\* presented refresh secret when the session was looked up.
Resp(kind, status, error) ==
    [kind |-> kind, status |-> status, error |-> error, uid |-> NoUid,
     role |-> "none", owner |-> NoUid, head |-> 0, presented |-> FALSE,
     clean |-> FALSE, late |-> FALSE, expired |-> FALSE, genuine |-> FALSE]

NoResp == Resp("none", 0, "")

CanStart == Cardinality(authTasks) < MaxAuthTasks

\* Secrets (heads) returned to clients of an identity so far.
SecretsOf(uid) == {p[1] : p \in {q \in issued : q[2] = uid}}

\* ------------------------------------------------------------------------
\* Session manager: POST /api/auth/register
\* ------------------------------------------------------------------------

\* The request arrives and colUsers.findOne({email}) runs.
RegisterFind(emailRaw) ==
    LET email == toLowerCase(emailRaw) IN
    /\ CanStart
    /\ IF \E u \in colUsers : u.email = email
       THEN /\ lastResp' = Resp("register", 409, "Email already registered")
            /\ UNCHANGED authTasks
       ELSE /\ authTasks' = authTasks \cup
                   {Task("register", "insertUser", email, NoUid, NoSecret, 0)}
            /\ lastResp' = NoResp
    /\ UNCHANGED <<colUsers, colArtists, colSessions, now, nextId,
                   nextSecret, tokens, issued, fresh, revoked>>

\* colUsers.insertOne(userDoc); the unique index on email rejects a duplicate
\* and the handler answers 500.  The Favorites playlist insert that follows
\* touches no state of this model; generateRefresh runs after it.
RegisterInsertUser(t) ==
    /\ t \in authTasks /\ t.kind = "register" /\ t.pc = "insertUser"
    /\ IF \E u \in colUsers : u.email = t.login
       THEN /\ lastResp' = Resp("register", 500, "Register failed")
            /\ authTasks' = authTasks \ {t}
            /\ UNCHANGED <<colUsers, nextId, nextSecret>>
       ELSE /\ nextSecret <= MaxSecrets
            /\ colUsers' = colUsers \cup
                   {[id |-> nextId, email |-> t.login,
                     password |-> hashPassword(GoodPassword), role |-> "user"]}
            /\ nextId' = nextId + 1
            /\ nextSecret' = nextSecret + 1
            /\ authTasks' = (authTasks \ {t}) \cup
                   {[t EXCEPT !.pc = "insertSession", !.uid = nextId,
                              !.secret = generateRefresh(nextSecret),
                              !.expiresAt = now + REFRESH_TTL_SEC]}
            /\ lastResp' = NoResp
    /\ UNCHANGED <<colArtists, colSessions, now, tokens, issued, fresh, revoked>>

\* Secrets of uid stay fresh only while nothing else concerning uid is pending.
FreshAfterIssue(t) ==
    LET others == {o \in authTasks \ {t} : o.uid = t.uid /\ o.kind # "refresh"}
        kept == {s \in fresh : s \notin SecretsOf(t.uid)}
    IN IF others = {} THEN kept \cup {t.secret.head} ELSE kept

\* res.json({accessToken, refreshToken, ...}) of register and login.
Issue(t, kind, role) ==
    LET tok == signAccess(t.uid, role, now) IN
    /\ tokens' = HoldToken(tok)
    /\ lastResp' = [Resp(kind, 200, "") EXCEPT !.uid = t.uid, !.role = role,
                        !.owner = t.uid]
    /\ issued' = issued \cup {<<t.secret.head, t.uid>>}
    /\ fresh' = FreshAfterIssue(t)
    /\ revoked' = revoked \ SecretsOf(t.uid)
    /\ authTasks' = authTasks \ {t}

\* colSessions.insertOne({uid, refreshHash, refreshFp, expiresAt, ...}), then
\* the access token is signed and the response sent.
RegisterInsertSession(t) ==
    /\ t \in authTasks /\ t.kind = "register" /\ t.pc = "insertSession"
    /\ colSessions' = Append(colSessions,
           NewSession(t.uid, t.secret, t.expiresAt, "absent", "user"))
    /\ Issue(t, "register", "user")
    /\ UNCHANGED <<colUsers, colArtists, now, nextId, nextSecret>>

\* ------------------------------------------------------------------------
\* Session manager: POST /api/auth/login
\* ------------------------------------------------------------------------

\* colUsers.findOne({email}), the password comparison, and generateRefresh.
LoginFind(emailRaw, pw) ==
    LET email == toLowerCase(emailRaw)
        found == {u \in colUsers : u.email = email}
    IN
    /\ CanStart
    /\ IF found = {} \/ \E u \in found : ~comparePassword(pw, u.password)
       THEN /\ lastResp' = Resp("login", 401, "Wrong email or password")
            /\ UNCHANGED <<authTasks, nextSecret, fresh>>
       ELSE \E u \in found :
            /\ nextSecret <= MaxSecrets
            /\ nextSecret' = nextSecret + 1
            /\ authTasks' = authTasks \cup
                   {Task("login", "upsert", email, u.id,
                         generateRefresh(nextSecret), now + REFRESH_TTL_SEC)}
            /\ fresh' = {s \in fresh : s \notin SecretsOf(u.id)}
            /\ lastResp' = NoResp
    /\ UNCHANGED <<colUsers, colArtists, colSessions, now, nextId,
                   tokens, issued, revoked>>

\* $set of the login upsert on the session document at index i.
LoginSet(sess, t, userType) ==
    [sess EXCEPT !.refreshHash = hashToken(t.secret),
                 !.refreshFp = fpToken(t.secret),
                 !.disabled = "false",
                 !.expiresAt = t.expiresAt,
                 !.userType = userType]

\* colSessions.updateOne({uid}, {$set ...}, {upsert: true}): the server looks
\* for a document with this uid.  It updates the first one it finds; when it
\* finds none it goes on to insert one, and since the index on uid is not
\* unique nothing stops two such upserts from both inserting.
UpsertMatch(t, kind, userType) ==
    /\ t \in authTasks /\ t.kind = kind /\ t.pc = "upsert"
    /\ IF SessByUid(t.uid) # {}
       THEN LET i == Min(SessByUid(t.uid)) IN
            /\ colSessions' = [colSessions EXCEPT ![i] = LoginSet(@, t, userType)]
            /\ Issue(t, kind, userType)
       ELSE /\ authTasks' = (authTasks \ {t}) \cup {[t EXCEPT !.pc = "insert"]}
            /\ lastResp' = NoResp
            /\ UNCHANGED <<colSessions, tokens, issued, fresh, revoked>>
    /\ UNCHANGED <<colUsers, colArtists, now, nextId, nextSecret>>

\* The insert half of the upsert ($set and $setOnInsert on a new document).
UpsertInsert(t, kind, userType) ==
    /\ t \in authTasks /\ t.kind = kind /\ t.pc = "insert"
    /\ colSessions' = Append(colSessions,
           NewSession(t.uid, t.secret, t.expiresAt, "false", userType))
    /\ Issue(t, kind, userType)
    /\ UNCHANGED <<colUsers, colArtists, now, nextId, nextSecret>>

LoginUpsertMatch(t) == UpsertMatch(t, "login", "user")
LoginUpsertInsert(t) == UpsertInsert(t, "login", "user")

\* ------------------------------------------------------------------------
\* Session manager: POST /api/artists/auth/register and .../login
\* ------------------------------------------------------------------------

\* The request arrives and colArtists.findOne({username}) runs.
ArtistRegisterFind(nameRaw) ==
    LET username == toLowerCase(nameRaw) IN
    /\ CanStart
    /\ IF \E u \in colArtists : u.username = username
       THEN /\ lastResp' = Resp("artistRegister", 409, "Username already taken")
            /\ UNCHANGED authTasks
       ELSE /\ authTasks' = authTasks \cup
                   {Task("artistRegister", "insertUser", username, NoUid, NoSecret, 0)}
            /\ lastResp' = NoResp
    /\ UNCHANGED <<colUsers, colArtists, colSessions, now, nextId,
                   nextSecret, tokens, issued, fresh, revoked>>

\* colArtists.insertOne(artistDoc) under the unique index on username, then
\* generateRefresh.
ArtistRegisterInsert(t) ==
    /\ t \in authTasks /\ t.kind = "artistRegister" /\ t.pc = "insertUser"
    /\ IF \E u \in colArtists : u.username = t.login
       THEN /\ lastResp' = Resp("artistRegister", 500, "Register failed")
            /\ authTasks' = authTasks \ {t}
            /\ UNCHANGED <<colArtists, nextId, nextSecret>>
       ELSE /\ nextSecret <= MaxSecrets
            /\ colArtists' = colArtists \cup
                   {[id |-> nextId, username |-> t.login,
                     password |-> hashPassword(GoodPassword)]}
            /\ nextId' = nextId + 1
            /\ nextSecret' = nextSecret + 1
            /\ authTasks' = (authTasks \ {t}) \cup
                   {[t EXCEPT !.pc = "insertSession", !.uid = nextId,
                              !.secret = generateRefresh(nextSecret),
                              !.expiresAt = now + REFRESH_TTL_SEC]}
            /\ lastResp' = NoResp
    /\ UNCHANGED <<colUsers, colSessions, now, tokens, issued, fresh, revoked>>

ArtistRegisterInsertSession(t) ==
    /\ t \in authTasks /\ t.kind = "artistRegister" /\ t.pc = "insertSession"
    /\ colSessions' = Append(colSessions,
           NewSession(t.uid, t.secret, t.expiresAt, "absent", "artist"))
    /\ Issue(t, "artistRegister", "artist")
    /\ UNCHANGED <<colUsers, colArtists, now, nextId, nextSecret>>

ArtistLoginFind(nameRaw, pw) ==
    LET username == toLowerCase(nameRaw)
        found == {u \in colArtists : u.username = username}
    IN
    /\ CanStart
    /\ IF found = {} \/ \E u \in found : ~comparePassword(pw, u.password)
       THEN /\ lastResp' = Resp("artistLogin", 401, "Wrong username or password")
            /\ UNCHANGED <<authTasks, nextSecret, fresh>>
       ELSE \E u \in found :
            /\ nextSecret <= MaxSecrets
            /\ nextSecret' = nextSecret + 1
            /\ authTasks' = authTasks \cup
                   {Task("artistLogin", "upsert", username, u.id,
                         generateRefresh(nextSecret), now + REFRESH_TTL_SEC)}
            /\ fresh' = {s \in fresh : s \notin SecretsOf(u.id)}
            /\ lastResp' = NoResp
    /\ UNCHANGED <<colUsers, colArtists, colSessions, now, nextId,
                   tokens, issued, revoked>>

ArtistLoginUpsertMatch(t) == UpsertMatch(t, "artistLogin", "artist")
ArtistLoginUpsertInsert(t) == UpsertInsert(t, "artistLogin", "artist")

\* ------------------------------------------------------------------------
\* Session manager: POST /api/auth/refresh
\* ------------------------------------------------------------------------

\* A refreshToken of the JSON body that is not a string (a number, an
\* object): hash.update(raw) throws on it.
NotAString == [head |-> -1, tail |-> -1]
IsString(raw) == raw.head >= 0

\* A refresh that disables the session it used.
SessionsAfterRefreshSingleUse(i) == [colSessions EXCEPT ![i].disabled = "true"]

\* The handler writes nothing to the sessions collection.
SessionsAfterRefresh(i) == colSessions

\* The refresh handler would answer 200 to this secret now.
RefreshAccepts(raw) ==
    LET hits == verifyRefreshByFp(fpToken(raw)) IN
    /\ IsString(raw) /\ raw # NoSecret /\ hits # {}
    /\ compareSync(raw, colSessions[Min(hits)].refreshHash)
    /\ \E u \in colUsers \cup colArtists : u.id = colSessions[Min(hits)].uid

\* A missing refreshToken is a 400.  A refreshToken that is not a string
\* makes fpToken throw and the catch answers 401 'Refresh failed'.
\* verifyRefreshByFp(fpToken(refreshToken))
\* looks the session up, bcrypt.compareSync checks the secret against the
\* stored hash, the identity is looked up in users and then in artists, and a
\* new access token is signed.  What runs after the session lookup reads only
\* the session found and documents that are never changed or removed, so the
\* handler is one step, taken when the session lookup runs.
Refresh(raw) ==
    LET hits == verifyRefreshByFp(fpToken(raw))
        flagged(r) == [r EXCEPT
                         !.head = raw.head, !.presented = TRUE,
                         !.clean = (raw.tail = 0 /\ raw.head \in fresh),
                         !.late = (raw.tail = 0 /\ raw.head \in revoked),
                         !.genuine = (raw.tail = 0 /\ raw.head \in 1..(nextSecret - 1))]
    IN
    /\ IF raw = NoSecret
       THEN /\ lastResp' = Resp("refresh", 400, "Missing refreshToken")
            /\ UNCHANGED <<tokens, colSessions>>
       ELSE IF ~IsString(raw)
       THEN /\ lastResp' = flagged(Resp("refresh", 401, "Refresh failed"))
            /\ UNCHANGED <<tokens, colSessions>>
       ELSE IF hits = {}
       THEN /\ lastResp' = flagged(Resp("refresh", 401, "Invalid session"))
            /\ UNCHANGED <<tokens, colSessions>>
       ELSE LET sess == colSessions[Min(hits)]
                role == IF \E u \in colUsers : u.id = sess.uid THEN "user" ELSE "artist"
                exists == \E u \in colUsers \cup colArtists : u.id = sess.uid
                base(status, err) ==
                    [flagged(Resp("refresh", status, err)) EXCEPT
                        !.owner = sess.uid, !.expired = (sess.expiresAt < now)]
            IN
            IF ~compareSync(raw, sess.refreshHash)
            THEN /\ lastResp' = base(401, "Invalid refresh")
                 /\ UNCHANGED <<tokens, colSessions>>
            ELSE IF ~exists
            THEN /\ lastResp' = base(401, "User not found")
                 /\ UNCHANGED <<tokens, colSessions>>
            ELSE LET tok == signAccess(sess.uid, role, now) IN
                 /\ tokens' = HoldToken(tok)
                 /\ lastResp' = [base(200, "") EXCEPT !.uid = tok.uid, !.role = tok.role]
                 /\ colSessions' = SessionsAfterRefresh(Min(hits))
    /\ UNCHANGED <<colUsers, colArtists, now, nextId,
                   nextSecret, authTasks, issued, fresh, revoked>>

\* ------------------------------------------------------------------------
\* Session manager: POST /api/auth/logout
\* ------------------------------------------------------------------------

\* A requireAuth that also wants a session of the identity that is not
\* disabled.
requireAuthSession(tok) ==
    /\ jwtVerify(tok, now) /\ \E u \in colUsers : u.id = tok.uid
    /\ \E i \in SessByUid(tok.uid) : colSessions[i].disabled # "true"

\* requireAuth: a bearer token that verifies and names a document of users.
requireAuth(tok) == jwtVerify(tok, now) /\ \E u \in colUsers : u.id = tok.uid

LogoutAuth(tok) ==
    /\ CanStart
    /\ IF requireAuth(tok)
       THEN /\ authTasks' = authTasks \cup
                   {Task("logout", "update", "", tok.uid, NoSecret, 0)}
            /\ fresh' = {s \in fresh : s \notin SecretsOf(tok.uid)}
            /\ lastResp' = NoResp
       ELSE /\ lastResp' = Resp("logout", 401, "Unauthorized")
            /\ UNCHANGED <<authTasks, fresh>>
    /\ UNCHANGED <<colUsers, colArtists, colSessions, now, nextId,
                   nextSecret, tokens, issued, revoked>>

\* colSessions.updateOne({uid}, {$set: {disabled: true}}), then {ok: true}.
LogoutUpdate(t) ==
    /\ t \in authTasks /\ t.kind = "logout" /\ t.pc = "update"
    /\ colSessions' =
          IF SessByUid(t.uid) = {} THEN colSessions
          ELSE [colSessions EXCEPT ![Min(SessByUid(t.uid))].disabled = "true"]
    /\ lastResp' = [Resp("logout", 200, "") EXCEPT !.owner = t.uid]
    /\ revoked' = revoked \cup SecretsOf(t.uid)
    /\ authTasks' = authTasks \ {t}
    /\ UNCHANGED <<colUsers, colArtists, now, nextId, nextSecret,
                   tokens, issued, fresh>>

\* ------------------------------------------------------------------------
\* CLI: create admin user (an identity without a session record)
\* ------------------------------------------------------------------------
CliCreateAdmin(emailRaw) ==
    LET email == toLowerCase(emailRaw) IN
    /\ ~\E u \in colUsers : u.email = email
    /\ colUsers' = colUsers \cup
           {[id |-> nextId, email |-> email,
             password |-> hashPassword(GoodPassword), role |-> "admin"]}
    /\ nextId' = nextId + 1
    /\ lastResp' = NoResp
    /\ UNCHANGED <<colArtists, colSessions, now, nextSecret, tokens,
                   authTasks, issued, fresh, revoked>>

\* ------------------------------------------------------------------------
\* The clock
\* ------------------------------------------------------------------------
Tick(t) ==
    /\ now < t
    /\ now' = t
    /\ lastResp' = NoResp
    /\ UNCHANGED <<colUsers, colArtists, colSessions, nextId, nextSecret, tokens,
                   authTasks, issued, fresh, revoked>>

\* ------------------------------------------------------------------------
\* Realtime channel and player state: values
\* ------------------------------------------------------------------------

\* new ObjectId(s) accepts hex digits of either case and throws on anything
\* else; an ObjectId prints in lower case.
IsHex(s) == s \in {"aaaa", "AAAA", "bbbb"}
ObjectId(s) == IF s = "AAAA" THEN "aaaa" ELSE s

\* A message or a document is a function from the names of the fields it has.
Has(m, f) == f \in DOMAIN m
Field(m, f, dflt) == IF f \in DOMAIN m THEN m[f] ELSE dflt

\* {...a, ...b}
Spread(a, b) ==
    [f \in DOMAIN a \cup DOMAIN b |-> IF f \in DOMAIN b THEN b[f] ELSE a[f]]

\* Keep only the fields in fs.
Only(m, fs) == [f \in DOMAIN m \cap fs |-> m[f]]

\* A whole-document replacement instead of a field-wise $set.
ApplySetReplace(doc, patch) == Spread(Only(doc, {"uid", "createdAt"}), patch)

\* $set: every field of the patch overwrites, every other field stays.
ApplySet(doc, patch) == Spread(doc, patch)

\* colStates.findOne({uid})
FindState(uid) == {d \in colStates : d.uid = uid}

\* colStates.updateOne({uid}, {$set: patch, $setOnInsert: {uid, createdAt}},
\* {upsert: true}); the unique index on uid keeps one document per listener.
UpsertState(uid, patch) ==
    IF FindState(uid) = {}
    THEN colStates \cup {ApplySet([uid |-> uid, createdAt |-> now], patch)}
    ELSE {IF d.uid = uid THEN ApplySet(d, patch) ELSE d : d \in colStates}

\* What the state updates of a listener have set so far, field by field.
Record(uid, patch) ==
    IF \E r \in recorded : r.uid = uid
    THEN {IF r.uid = uid THEN Spread(r, patch) ELSE r : r \in recorded}
    ELSE recorded \cup {Spread([uid |-> uid], patch)}

\* A default document that says the player is playing.
DefaultStatePlaying(uid) ==
    [uid |-> uid, isPlaying |-> TRUE, positionMs |-> 0, queue |-> <<>>,
     currentIndex |-> 0]

\* The document GET /api/player/state answers when there is none.
DefaultState(uid) ==
    [uid |-> uid, isPlaying |-> FALSE, positionMs |-> 0, queue |-> <<>>,
     currentIndex |-> 0]

\* Registry entries.
Entry(c) == CHOOSE e \in WS_CLIENTS : e.id = c
HasEntry(c) == \E e \in WS_CLIENTS : e.id = c
SetEntry(c, e) == {IF x.id = c THEN e ELSE x : x \in WS_CLIENTS}

\* broadcastRaw: every registry entry that satisfies the predicate and whose
\* socket is OPEN is sent the message.
broadcastRaw(pred(_)) ==
    {m.id : m \in {e \in WS_CLIENTS : pred(e) /\ wsReady[e.id] = "OPEN"}}

\* A broadcast that does not look at the listener of an entry.
broadcastToAnyone(uid) == broadcastRaw(LAMBDA m : TRUE)

\* broadcastToUser(uidStr, msg)
broadcastToUser(uid) == broadcastRaw(LAMBDA m : m.uid # NoUid /\ m.uid = uid)

\* Messages and what a step reports.
NoState == [none |-> TRUE]
Msg(type) ==
    [type |-> type, state |-> NoState, to |-> "", cmd |-> "", from |-> "",
     deviceId |-> "", authed |-> FALSE]
NoSend == [msg |-> Msg("none"), recipients |-> {}]
Send(msg, rcpts) == [msg |-> msg, recipients |-> rcpts]

\* No accessToken in a hello, no bearer token in a request.
NoToken == [uid |-> NoUid, role |-> "none", exp |-> 0]

\* What a handler did: the operation, the listener and connection it acted
\* for, the access token it was given, and its answer.
Event(op, uid, origin) ==
    [op |-> op, uid |-> uid, origin |-> origin, dev |-> "", target |-> "",
     status |-> 0, reply |-> "", state |-> NoState, watch |-> {},
     trackId |-> "", written |-> NoState, tok |-> NoToken]
NoEvent == Event("none", NoUid, "")

SyncTask(kind, pc, conn, uid) ==
    [kind |-> kind, pc |-> pc, conn |-> conn, uid |-> uid, dev |-> "",
     patch |-> NoState, msg |-> NoState, to |-> "", cmd |-> "", watch |-> {},
     written |-> NoState]

CanStartSync == Cardinality(syncTasks) < MaxSyncTasks /\ ops < MaxOps

\* Connections that are authenticated as uid with an OPEN socket.
Watchers(uid, clients, ready) ==
    {e.id : e \in {x \in clients : x.uid = uid /\ ready[x.id] = "OPEN"}}

\* Pending handlers keep track of the connections that have stayed
\* authenticated as their listener, and open, since the message came in.
Prune(tasks, clients, ready) ==
    {[t EXCEPT !.watch = @ \cap Watchers(t.uid, clients, ready)] : t \in tasks}

\* ------------------------------------------------------------------------
\* Connection registry: handleWSConnection
\* ------------------------------------------------------------------------
\* nanoid() names every connection afresh; the names are taken in this order.
ConnOrder == [c \in Conns |-> IF c = "c1" THEN 1 ELSE 2]

\* A token that was not signed with JWT_SECRET.
ForgedToken == [uid |-> 1, role |-> "forged", exp |-> 0]

Quiet == sent' = NoSend /\ event' = NoEvent

\* A socket connects: the registry gets {ws} under a new id and the socket is
\* sent welcome.
WSOpen(c) ==
    /\ wsReady[c] = "NONE"
    /\ \A b \in Conns : wsReady[b] = "NONE" => ConnOrder[c] <= ConnOrder[b]
    /\ wsReady' = [wsReady EXCEPT ![c] = "OPEN"]
    /\ WS_CLIENTS' = WS_CLIENTS \cup {[id |-> c, uid |-> NoUid, deviceId |-> ""]}
    /\ sent' = Send(Msg("welcome"), {c})
    /\ event' = Event("open", NoUid, c)
    /\ UNCHANGED <<colStates, recorded, syncTasks, ops>>

\* The peer starts the closing handshake: readyState leaves OPEN before the
\* close event is emitted.
WSClosing(c) ==
    /\ wsReady[c] = "OPEN"
    /\ wsReady' = [wsReady EXCEPT ![c] = "CLOSING"]
    /\ syncTasks' = Prune(syncTasks, WS_CLIENTS, wsReady')
    /\ Quiet
    /\ UNCHANGED <<WS_CLIENTS, colStates, recorded, ops>>

\* A close handler that leaves the entry in the registry.
DeleteNothing(clients, c) == clients

\* WS_CLIENTS.delete(id)
Delete(clients, c) == {e \in clients : e.id # c}

\* ws.on('close'): WS_CLIENTS.delete(id)
WSClose(c) ==
    /\ wsReady[c] \in {"OPEN", "CLOSING"}
    /\ wsReady' = [wsReady EXCEPT ![c] = "CLOSED"]
    /\ WS_CLIENTS' = Delete(WS_CLIENTS, c)
    /\ syncTasks' = Prune(syncTasks, WS_CLIENTS', wsReady')
    /\ event' = Event("close", NoUid, c)
    /\ sent' = NoSend
    /\ UNCHANGED <<colStates, recorded, ops>>

HelloAckMsg(authed) == [Msg("hello_ack") EXCEPT !.authed = authed]

\* A hello message.  Without an access token, or with one that jwt.verify
\* rejects in authenticateAccessToken, nothing is waited for: app and deviceId are set and hello_ack
\* {authed: false} is sent.  Otherwise the handler waits for the lookup of the
\* identity.
HelloRecv(c, tok, dev) ==
    LET deviceId == IF dev # "" THEN dev ELSE c IN
    /\ wsReady[c] = "OPEN" /\ CanStartSync
    /\ ops' = ops + 1
    /\ IF tok = NoToken \/ ~jwtVerify(tok, now)
       THEN /\ WS_CLIENTS' = SetEntry(c, [Entry(c) EXCEPT !.deviceId = deviceId])
            /\ syncTasks' = {IF t.conn = c /\ t.kind = "control"
                             THEN [t EXCEPT !.dev = deviceId] ELSE t : t \in syncTasks}
            /\ sent' = Send(HelloAckMsg(FALSE), {c})
            /\ event' = [Event("hello", Entry(c).uid, c) EXCEPT !.dev = deviceId, !.tok = tok]
       ELSE /\ syncTasks' = syncTasks \cup
                   {[SyncTask("hello", "auth", c, tok.uid) EXCEPT
                        !.dev = deviceId, !.msg = tok]}
            /\ Quiet
            /\ UNCHANGED WS_CLIENTS
    /\ UNCHANGED <<wsReady, colStates, recorded>>

\* The identity lookup resolves.  WS_CLIENTS.get(id) is undefined once the
\* connection has closed, so setting a field throws and the handler ends.
\* Otherwise app and deviceId are set, and uid when an identity was found;
\* then the device record is upserted, or hello_ack {authed: false} is sent.
HelloAuth(t) ==
    LET c == t.conn
        user == \E u \in colUsers \cup colArtists : u.id = t.uid
    IN
    /\ t \in syncTasks /\ t.kind = "hello" /\ t.pc = "auth"
    /\ IF ~HasEntry(c)
       THEN /\ syncTasks' = syncTasks \ {t}
            /\ Quiet
            /\ UNCHANGED WS_CLIENTS
       ELSE /\ WS_CLIENTS' = SetEntry(c, [Entry(c) EXCEPT
                                  !.deviceId = t.dev,
                                  !.uid = IF user THEN t.uid ELSE @])
            /\ LET rest == {IF x.conn = c /\ x.kind = "control"
                            THEN [x EXCEPT !.dev = t.dev] ELSE x : x \in syncTasks \ {t}}
               IN syncTasks' = Prune(rest, WS_CLIENTS', wsReady)
                                  \cup (IF user THEN {[t EXCEPT !.pc = "device"]} ELSE {})
            /\ IF user
               THEN Quiet
               ELSE /\ sent' = Send(HelloAckMsg(FALSE),
                                    IF wsReady[c] = "OPEN" THEN {c} ELSE {})
                    /\ event' = [Event("hello", Entry(c).uid, c) EXCEPT
                                    !.dev = t.dev, !.tok = t.msg]
    /\ UNCHANGED <<wsReady, colStates, recorded, ops>>

\* colDevices.updateOne resolves (device records are presentation only and
\* are not part of this model) and hello_ack {authed: true} is sent.
HelloAck(t) ==
    /\ t \in syncTasks /\ t.kind = "hello" /\ t.pc = "device"
    /\ syncTasks' = syncTasks \ {t}
    /\ sent' = Send(HelloAckMsg(TRUE), IF wsReady[t.conn] = "OPEN" THEN {t.conn} ELSE {})
    /\ event' = [Event("hello", t.uid, t.conn) EXCEPT !.dev = t.dev, !.tok = t.msg]
    /\ UNCHANGED <<WS_CLIENTS, wsReady, colStates, recorded, ops>>

\* ping is answered with pong.
Ping(c) ==
    /\ wsReady[c] = "OPEN" /\ ops < MaxOps
    /\ ops' = ops + 1
    /\ sent' = Send(Msg("pong"), {c})
    /\ event' = Event("ping", NoUid, c)
    /\ UNCHANGED <<WS_CLIENTS, wsReady, colStates, recorded, syncTasks>>

\* A handler that treats every connection as authenticated.
AuthenticatedAlways(meta) == TRUE

\* const uid = meta?.uid; if (!uid) return;
Authenticated(meta) == meta.uid # NoUid

\* A message that needs an identity came in on a connection without one and
\* the handler returned.
Dropped(c, type) == [Event("dropped", NoUid, c) EXCEPT !.target = type]

\* ------------------------------------------------------------------------
\* Realtime now_playing
\* ------------------------------------------------------------------------

\* The patch of the now_playing handler.
NowPlayingPatch(msg, meta) ==
    LET p0 == [updatedAt |-> now,
               updatedBy |-> IF Field(msg, "deviceId", "") # ""
                             THEN msg.deviceId ELSE meta.deviceId]
        p1 == IF Field(msg, "trackId", "") # ""
              THEN Spread(p0, [trackId |-> ObjectId(msg.trackId)]) ELSE p0
        p2 == IF Has(msg, "positionMs")
              THEN Spread(p1, [positionMs |-> msg.positionMs]) ELSE p1
    IN IF Has(msg, "isPlaying") THEN Spread(p2, [isPlaying |-> msg.isPlaying]) ELSE p2

\* A notification that carries the patch as it was stored.
NowPlayingStateStored(msg, patch) == patch

\* state: {...patch, trackId: msg.trackId}
NowPlayingState(msg, patch) ==
    IF Has(msg, "trackId") THEN Spread(patch, [trackId |-> msg.trackId]) ELSE patch

\* A now_playing message: ignored when the connection has no uid; new
\* ObjectId throws on a trackId that is not hex and the handler ends;
\* otherwise the handler waits for the upsert.
NowPlayingRecv(c, msg) ==
    /\ wsReady[c] = "OPEN" /\ CanStartSync
    /\ ops' = ops + 1
    /\ sent' = NoSend
    /\ LET meta == Entry(c) IN
       IF ~Authenticated(meta)
       THEN event' = Dropped(c, "now_playing") /\ UNCHANGED syncTasks
       ELSE IF Field(msg, "trackId", "") # "" /\ ~IsHex(msg.trackId)
       THEN event' = NoEvent /\ UNCHANGED syncTasks
       ELSE /\ event' = NoEvent
            /\ syncTasks' = syncTasks \cup
                   {[SyncTask("now_playing", "update", c, meta.uid) EXCEPT
                        !.patch = NowPlayingPatch(msg, meta), !.msg = msg,
                        !.watch = Watchers(meta.uid, WS_CLIENTS, wsReady) \ {c}]}
    /\ UNCHANGED <<WS_CLIENTS, wsReady, colStates, recorded>>

\* colStates.updateOne(...) is applied.
NowPlayingUpdate(t) ==
    /\ t \in syncTasks /\ t.kind = "now_playing" /\ t.pc = "update"
    /\ colStates' = UpsertState(t.uid, t.patch)
    /\ recorded' = Record(t.uid, t.patch)
    /\ syncTasks' = (syncTasks \ {t}) \cup
           {[t EXCEPT !.pc = "broadcast",
                      !.written = CHOOSE d \in colStates' : d.uid = t.uid]}
    /\ Quiet
    /\ UNCHANGED <<WS_CLIENTS, wsReady, ops>>

\* The upsert has resolved: broadcastToUser(uid, {type: 'player_state', ...}).
NowPlayingBroadcast(t) ==
    /\ t \in syncTasks /\ t.kind = "now_playing" /\ t.pc = "broadcast"
    /\ syncTasks' = syncTasks \ {t}
    /\ sent' = Send([Msg("player_state") EXCEPT !.state = NowPlayingState(t.msg, t.patch)],
                    broadcastToUser(t.uid))
    /\ event' = [Event("now_playing", t.uid, t.conn) EXCEPT
                    !.dev = t.patch.updatedBy, !.watch = t.watch,
                    !.trackId = Field(t.msg, "trackId", ""), !.written = t.written]
    /\ UNCHANGED <<WS_CLIENTS, wsReady, colStates, recorded, ops>>

\* ------------------------------------------------------------------------
\* Realtime control
\* ------------------------------------------------------------------------
ControlMsg(cmd, from) == [Msg("control") EXCEPT !.cmd = cmd, !.from = from]

\* The connections a realtime control message is sent to.
ControlTargets(uid, to) ==
    broadcastRaw(LAMBDA m : m.uid # NoUid /\ m.uid = uid /\ m.deviceId = to)

\* A control message: ignored when the connection has no uid; with a `to` it
\* is sent on at once, without one the handler waits for the state document.
ControlRecv(c, to, cmd) ==
    /\ wsReady[c] = "OPEN" /\ CanStartSync
    /\ ops' = ops + 1
    /\ LET meta == Entry(c) IN
       IF ~Authenticated(meta)
       THEN /\ sent' = NoSend
            /\ event' = Dropped(c, "control")
            /\ UNCHANGED syncTasks
       ELSE IF to # ""
       THEN /\ sent' = Send(ControlMsg(cmd, meta.deviceId), ControlTargets(meta.uid, to))
            /\ event' = [Event("control", meta.uid, c) EXCEPT
                            !.dev = meta.deviceId, !.target = to]
            /\ UNCHANGED syncTasks
       ELSE /\ syncTasks' = syncTasks \cup
                   {[SyncTask("control", "find", c, meta.uid) EXCEPT
                        !.dev = meta.deviceId, !.cmd = cmd]}
            /\ Quiet
    /\ UNCHANGED <<WS_CLIENTS, wsReady, colStates, recorded>>

\* (await colStates.findOne({uid}))?.activeDeviceId
ActiveDeviceId(uid) ==
    IF FindState(uid) = {} THEN ""
    ELSE Field(CHOOSE d \in FindState(uid) : TRUE, "activeDeviceId", "")

ControlFind(t) ==
    /\ t \in syncTasks /\ t.kind = "control" /\ t.pc = "find"
    /\ syncTasks' = (syncTasks \ {t}) \cup
           {[t EXCEPT !.pc = "send", !.to = ActiveDeviceId(t.uid)]}
    /\ Quiet
    /\ UNCHANGED <<WS_CLIENTS, wsReady, colStates, recorded, ops>>

ControlSend(t) ==
    /\ t \in syncTasks /\ t.kind = "control" /\ t.pc = "send"
    /\ syncTasks' = syncTasks \ {t}
    /\ sent' = Send(ControlMsg(t.cmd, t.dev), ControlTargets(t.uid, t.to))
    /\ event' = [Event("control", t.uid, t.conn) EXCEPT !.dev = t.dev, !.target = t.to]
    /\ UNCHANGED <<WS_CLIENTS, wsReady, colStates, recorded, ops>>

\* ------------------------------------------------------------------------
\* Player state over HTTP
\* ------------------------------------------------------------------------
Unauthorized(op) == [Event(op, NoUid, "") EXCEPT !.status = 401, !.reply = "Unauthorized"]

\* GET /api/player/state: the stored document or the default one.
HttpGetState(tok) ==
    /\ ops < MaxOps
    /\ ops' = ops + 1
    /\ sent' = NoSend
    /\ event' =
          IF ~requireAuth(tok) THEN [Unauthorized("getState") EXCEPT !.tok = tok]
          ELSE [Event("getState", tok.uid, "") EXCEPT
                   !.status = 200, !.tok = tok,
                   !.state = IF FindState(tok.uid) = {} THEN DefaultState(tok.uid)
                             ELSE CHOOSE d \in FindState(tok.uid) : TRUE]
    /\ UNCHANGED <<WS_CLIENTS, wsReady, colStates, recorded, syncTasks>>

\* The patch of POST /api/player/state from a body PlayerStateUpdateSchema
\* accepts.
HttpStatePatch(body) ==
    LET p0 == [updatedAt |-> now, updatedBy |-> body.deviceId]
        p1 == IF Field(body, "trackId", "") # ""
              THEN Spread(p0, [trackId |-> ObjectId(body.trackId)]) ELSE p0
        p2 == IF Has(body, "positionMs")
              THEN Spread(p1, [positionMs |-> body.positionMs]) ELSE p1
        p3 == IF Has(body, "isPlaying")
              THEN Spread(p2, [isPlaying |-> body.isPlaying]) ELSE p2
        p4 == IF Has(body, "queue")
              THEN Spread(p3, [queue |-> [k \in DOMAIN body.queue |-> ObjectId(body.queue[k])]])
              ELSE p3
    IN IF Has(body, "currentIndex")
       THEN Spread(p4, [currentIndex |-> body.currentIndex]) ELSE p4

\* positionMs: z.number().int().min(0).max(24 * 3600 * 1000)
MaxPositionMs == 24 * 3600 * 1000

\* PlayerStateUpdateSchema.parse(body) accepts the body: positionMs and
\* currentIndex, when present, are integers in range.  (deviceId and the ids
\* of the inputs have the lengths the schema asks for.)
PlayerStateUpdateSchema(body) ==
    /\ Has(body, "positionMs") => body.positionMs \in 0..MaxPositionMs
    /\ Has(body, "currentIndex") => body.currentIndex >= 0

\* new ObjectId throws on a trackId or queue entry that is not hex.
HttpStateThrows(body) ==
    \/ Field(body, "trackId", "") # "" /\ ~IsHex(body.trackId)
    \/ Has(body, "queue") /\ \E k \in DOMAIN body.queue : ~IsHex(body.queue[k])

\* POST /api/player/state: requireAuth, the body is parsed (a ZodError is
\* answered 400), and colStates.updateOne(...) is applied.
HttpStateUpdate(tok, body) ==
    /\ CanStartSync
    /\ ops' = ops + 1
    /\ sent' = NoSend
    /\ IF ~requireAuth(tok)
       THEN /\ event' = Unauthorized("httpState")
            /\ UNCHANGED <<colStates, recorded, syncTasks>>
       ELSE IF ~PlayerStateUpdateSchema(body)
       THEN /\ event' = [Event("httpState", tok.uid, "") EXCEPT
                            !.status = 400, !.reply = "ZodError"]
            /\ UNCHANGED <<colStates, recorded, syncTasks>>
       ELSE IF HttpStateThrows(body)
       THEN /\ event' = [Event("httpState", tok.uid, "") EXCEPT
                            !.status = 500, !.reply = "state update failed"]
            /\ UNCHANGED <<colStates, recorded, syncTasks>>
       ELSE /\ colStates' = UpsertState(tok.uid, HttpStatePatch(body))
            /\ recorded' = Record(tok.uid, HttpStatePatch(body))
            /\ syncTasks' = syncTasks \cup
                   {[SyncTask("httpState", "broadcast", "", tok.uid) EXCEPT
                        !.patch = HttpStatePatch(body), !.msg = body,
                        !.dev = body.deviceId,
                        !.written = CHOOSE d \in colStates' : d.uid = tok.uid]}
            /\ event' = NoEvent
    /\ UNCHANGED <<WS_CLIENTS, wsReady>>

\* The upsert has resolved: broadcastToUser and {ok: true}.
HttpStateBroadcast(t) ==
    /\ t \in syncTasks /\ t.kind = "httpState" /\ t.pc = "broadcast"
    /\ syncTasks' = syncTasks \ {t}
    /\ sent' = Send([Msg("player_state") EXCEPT !.state = t.patch], broadcastToUser(t.uid))
    /\ event' = [Event("httpState", t.uid, "") EXCEPT
                    !.dev = t.dev, !.status = 200, !.reply = "ok",
                    !.trackId = Field(t.msg, "trackId", ""), !.written = t.written]
    /\ UNCHANGED <<WS_CLIENTS, wsReady, colStates, recorded, ops>>

\* POST /api/player/activate: $set {activeDeviceId, updatedAt}.
HttpActivateUpdate(tok, deviceId) ==
    /\ CanStartSync
    /\ ops' = ops + 1
    /\ sent' = NoSend
    /\ IF ~requireAuth(tok)
       THEN /\ event' = Unauthorized("httpActivate")
            /\ UNCHANGED <<colStates, recorded, syncTasks>>
       ELSE /\ colStates' = UpsertState(tok.uid,
                                [activeDeviceId |-> deviceId, updatedAt |-> now])
            /\ recorded' = Record(tok.uid,
                                [activeDeviceId |-> deviceId, updatedAt |-> now])
            /\ syncTasks' = syncTasks \cup
                   {[SyncTask("httpActivate", "broadcast", "", tok.uid) EXCEPT
                        !.dev = deviceId]}
            /\ event' = NoEvent
    /\ UNCHANGED <<WS_CLIENTS, wsReady>>

HttpActivateBroadcast(t) ==
    /\ t \in syncTasks /\ t.kind = "httpActivate" /\ t.pc = "broadcast"
    /\ syncTasks' = syncTasks \ {t}
    /\ sent' = Send([Msg("active_device") EXCEPT !.deviceId = t.dev], broadcastToUser(t.uid))
    /\ event' = [Event("httpActivate", t.uid, "") EXCEPT
                    !.dev = t.dev, !.status = 200, !.reply = "ok"]
    /\ UNCHANGED <<WS_CLIENTS, wsReady, colStates, recorded, ops>>

\* POST /api/player/control: the state document is read for activeDeviceId.
HttpControlFind(tok, cmd) ==
    /\ CanStartSync
    /\ ops' = ops + 1
    /\ sent' = NoSend
    /\ IF ~requireAuth(tok)
       THEN /\ event' = Unauthorized("httpControl")
            /\ UNCHANGED syncTasks
       ELSE /\ syncTasks' = syncTasks \cup
                   {[SyncTask("httpControl", "send", "", tok.uid) EXCEPT
                        !.cmd = cmd, !.to = ActiveDeviceId(tok.uid)]}
            /\ event' = NoEvent
    /\ UNCHANGED <<WS_CLIENTS, wsReady, colStates, recorded>>

\* The connections POST /api/player/control sends the command to.
HttpControlTargets(uid, to) == broadcastToUser(uid)

\* Without an activeDeviceId the answer is 400 'No active device'; otherwise
\* broadcastToUser(uid, {type: 'control', to, cmd, args, from: 'api'}) and
\* {ok: true}.
HttpControlSend(t) ==
    /\ t \in syncTasks /\ t.kind = "httpControl" /\ t.pc = "send"
    /\ syncTasks' = syncTasks \ {t}
    /\ IF t.to = ""
       THEN /\ sent' = NoSend
            /\ event' = [Event("httpControl", t.uid, "") EXCEPT
                            !.status = 400, !.reply = "No active device"]
       ELSE /\ sent' = Send([ControlMsg(t.cmd, "api") EXCEPT !.to = t.to],
                            HttpControlTargets(t.uid, t.to))
            /\ event' = [Event("httpControl", t.uid, "") EXCEPT
                            !.target = t.to, !.status = 200, !.reply = "ok"]
    /\ UNCHANGED <<WS_CLIENTS, wsReady, colStates, recorded, ops>>

\* ------------------------------------------------------------------------
\* Stream server: paths and the Range header
\* ------------------------------------------------------------------------

\* A path is the list of its segments; a fileRel also says whether it starts
\* with a slash.
STORE_DIR == <<"srv", "store", "tracks">>

\* path.resolve of an absolute path: "." and empty segments are dropped and
\* ".." removes the segment before it.
RECURSIVE Normalize(_, _)
Normalize(segs, acc) ==
    IF segs = <<>> THEN acc
    ELSE LET h == Head(segs) IN
         Normalize(Tail(segs),
                   IF h = ".." THEN (IF acc = <<>> THEN acc ELSE SubSeq(acc, 1, Len(acc) - 1))
                   ELSE IF h \in {".", ""} THEN acc
                   ELSE Append(acc, h))

\* path.resolve(CFG.STORE_DIR, fileRel)
Resolve(fileRel) ==
    IF fileRel.abs THEN Normalize(fileRel.segs, <<>>)
    ELSE Normalize(STORE_DIR \o fileRel.segs, <<>>)

\* The absolute path lies in the storage root.
InStore(abs) ==
    Len(abs) > Len(STORE_DIR) /\ SubSeq(abs, 1, Len(STORE_DIR)) = STORE_DIR

\* A header value is the sequence of its characters; an absent header is the
\* empty sequence.
Digits == {"0", "1", "2", "3", "4", "5", "6", "7", "8", "9"}
DigitVal(ch) ==
    CASE ch = "0" -> 0 [] ch = "1" -> 1 [] ch = "2" -> 2 [] ch = "3" -> 3
      [] ch = "4" -> 4 [] ch = "5" -> 5 [] ch = "6" -> 6 [] ch = "7" -> 7
      [] ch = "8" -> 8 [] ch = "9" -> 9

\* parseInt(ds, 10) of a sequence of digits
RECURSIVE parseInt(_)
parseInt(ds) ==
    IF ds = <<>> THEN 0
    ELSE parseInt(SubSeq(ds, 1, Len(ds) - 1)) * 10 + DigitVal(ds[Len(ds)])

BytesPrefix == <<"b", "y", "t", "e", "s", "=">>
NoMatch == [ok |-> FALSE, first |-> <<>>, last |-> <<>>]

\* /^bytes=(\d+)-(\d*)$/.exec(range)
RangeExec(h) ==
    LET n == Len(h)
        k == Len(BytesPrefix)
        dashes == {i \in (k + 1)..n : h[i] \notin Digits}
    IN IF n <= k \/ SubSeq(h, 1, k) # BytesPrefix \/ dashes = {} THEN NoMatch
       ELSE LET d == CHOOSE i \in dashes : \A j \in dashes : i <= j IN
            IF h[d] = "-" /\ d > k + 1 /\ dashes = {d}
            THEN [ok |-> TRUE, first |-> SubSeq(h, k + 1, d - 1),
                  last |-> SubSeq(h, d + 1, n)]
            ELSE NoMatch

Min2(a, b) == IF a <= b THEN a ELSE b

\* An end that runs to the end of the file when the header gives none.
ResolveEndToEof(m, start, total) ==
    IF m.last # <<>> THEN Min2(parseInt(m.last), total - 1) ELSE total - 1

\* const end = m[2] ? Math.min(parseInt(m[2], 10), total - 1)
\*                  : Math.min(start + 1024 * 1024 - 1, total - 1)
ResolveEnd(m, start, total) ==
    IF m.last # <<>> THEN Min2(parseInt(m.last), total - 1)
    ELSE Min2(start + CHUNK - 1, total - 1)

\* ------------------------------------------------------------------------
\* Stream server: requests
\* ------------------------------------------------------------------------
NoRange == [start |-> -1, end |-> -1, total |-> -1]
NoBody == [path |-> <<>>, start |-> -1, end |-> -1]
NoHeader == [text |-> <<>>, kind |-> "none", start |-> -1, end |-> -1]

\* A response: status, Content-Length (-1: not set), Content-Range, and the
\* bytes piped to it; with the request it answers (track id, header, size of
\* the file, -1 when no file was found).
StreamResp(op, status) ==
    [op |-> op, status |-> status, length |-> -1, range |-> NoRange,
     body |-> NoBody, tid |-> 0, header |-> NoHeader, total |-> -1]
NoStreamResp == StreamResp("none", 0)

StreamIdle ==
    /\ colTracks = {}
    /\ files = [p \in {STORE_DIR \o <<"a.mp3">>} |-> 1000]
    /\ playsPending = [i \in 1..MaxTracks |-> 0]
    /\ streamResp = NoStreamResp
    /\ streams = 0

\* requireArtist: the bearer verifies, has role artist and is an artist.
requireArtist(tok) ==
    IF ~jwtVerify(tok, now) THEN 401
    ELSE IF tok.role # "artist" THEN 403
    ELSE IF ~\E a \in colArtists : a.id = tok.uid THEN 401
    ELSE 200

\* POST /api/artists/me/tracks: the body's fileRel is stored as given.
TrackCreate(tok, fileRel) ==
    /\ Cardinality(colTracks) < MaxTracks
    /\ IF requireArtist(tok) # 200
       THEN /\ streamResp' = StreamResp("trackCreate", requireArtist(tok))
            /\ UNCHANGED colTracks
       ELSE /\ colTracks' = colTracks \cup
                   {[id |-> Cardinality(colTracks) + 1, fileRel |-> fileRel, plays |-> 0]}
            /\ streamResp' = [StreamResp("trackCreate", 200) EXCEPT
                                 !.tid = Cardinality(colTracks) + 1]
    /\ UNCHANGED <<files, playsPending, streams>>

\* A createReadStream that accepts any start and end.
createReadStreamAccepts(start, end) == FALSE

\* fs.createReadStream(path, {start, end}) throws ERR_OUT_OF_RANGE when
\* start > end.
createReadStreamThrows(start, end) == start > end

\* The response of GET /api/tracks/:id/stream for a track document.
StreamResponse(track, hdr) ==
    LET fileAbs == Resolve(track.fileRel)
        base == [StreamResp("stream", 0) EXCEPT !.tid = track.id, !.header = hdr]
    IN
    IF fileAbs \notin DOMAIN files THEN [base EXCEPT !.status = 400]
    ELSE
    LET total == files[fileAbs]
        sized == [base EXCEPT !.total = total]
    IN
    IF hdr.text = <<>>
    THEN [sized EXCEPT !.status = 200, !.length = total,
                       !.body = [path |-> fileAbs, start |-> 0, end |-> total - 1]]
    ELSE
    LET m == RangeExec(hdr.text) IN
    IF ~m.ok THEN [sized EXCEPT !.status = 416]
    ELSE
    LET start == parseInt(m.first)
        end == ResolveEnd(m, start, total)
        headers == [sized EXCEPT
                       !.range = [start |-> start, end |-> end, total |-> total],
                       !.length = end - start + 1]
    IN
    IF start >= total \/ end >= total THEN [sized EXCEPT !.status = 416]
    ELSE IF createReadStreamThrows(start, end) THEN [headers EXCEPT !.status = 400]
    ELSE [headers EXCEPT !.status = 206,
                         !.body = [path |-> fileAbs, start |-> start, end |-> end]]

\* GET /api/tracks/:id/stream: 404 without a track document; after a 200 or
\* 206 the play-count update is started and not waited for.
StreamOpen(tid, hdr) ==
    /\ streams < MaxStreams
    /\ streams' = streams + 1
    /\ LET found == {t \in colTracks : t.id = tid} IN
       IF found = {}
       THEN /\ streamResp' = [StreamResp("stream", 404) EXCEPT !.tid = tid, !.header = hdr]
            /\ UNCHANGED playsPending
       ELSE LET resp == StreamResponse(CHOOSE t \in found : TRUE, hdr) IN
            /\ streamResp' = resp
            /\ playsPending' = IF resp.status \in {200, 206}
                               THEN [playsPending EXCEPT ![tid] = @ + 1]
                               ELSE playsPending
    /\ UNCHANGED <<colTracks, files>>

\* A rejected update that reaches the response.
PlaysRejectedFails(resp) == [resp EXCEPT !.status = 400]

\* .catch(() => {}): a rejected update is dropped.
PlaysRejected(resp) == resp

\* colTracks.updateOne({_id}, {$inc: {plays: 1}, ...}) resolves or rejects.
PlaysResolve(tid, ok) ==
    /\ tid \in DOMAIN playsPending /\ playsPending[tid] > 0
    /\ playsPending' = [playsPending EXCEPT ![tid] = @ - 1]
    /\ IF ok
       THEN /\ colTracks' = {IF t.id = tid THEN [t EXCEPT !.plays = @ + 1] ELSE t :
                                t \in colTracks}
            /\ UNCHANGED streamResp
       ELSE /\ streamResp' = PlaysRejected(streamResp)
            /\ UNCHANGED colTracks
    /\ UNCHANGED <<files, streams>>

\* ------------------------------------------------------------------------
\* Specification of the stream server
\* ------------------------------------------------------------------------

\* Decimal digits of a number.
RECURSIVE ToDigits(_)
ToDigits(n) ==
    LET d == <<"0", "1", "2", "3", "4", "5", "6", "7", "8", "9">>[(n % 10) + 1] IN
    IF n < 10 THEN <<d>> ELSE Append(ToDigits(n \div 10), d)

\* Range headers: bytes=a-b, bytes=a-, and values the pattern rejects.
RangeNumbers == {0, 499, 1000, 1500, CHUNK}
ClosedRange(a, b) ==
    [text |-> BytesPrefix \o ToDigits(a) \o <<"-">> \o ToDigits(b),
     kind |-> "closed", start |-> a, end |-> b]
OpenRange(a) ==
    [text |-> BytesPrefix \o ToDigits(a) \o <<"-">>,
     kind |-> "open", start |-> a, end |-> -1]
Malformed(text) == [text |-> text, kind |-> "malformed", start |-> -1, end |-> -1]
RangeInputs ==
    {NoHeader}
    \cup {ClosedRange(a, b) : a \in RangeNumbers, b \in RangeNumbers}
    \cup {OpenRange(a) : a \in RangeNumbers}
    \cup {[OpenRange(7) EXCEPT !.text = BytesPrefix \o <<"0", "0", "7", "-">>]}
    \cup {Malformed(BytesPrefix \o <<"-", "5", "0", "0">>),
          Malformed(BytesPrefix \o <<"0", "-", "1", ",", "2", "-", "3">>),
          Malformed(BytesPrefix \o <<"a", "-", "5">>),
          Malformed(BytesPrefix \o <<"5">>),
          Malformed(<<"B", "y", "t", "e", "s", "=", "0", "-", "5">>),
          Malformed(<<"i", "t", "e", "m", "s", "=", "0", "-", "5">>),
          Malformed(BytesPrefix \o <<"0", "-", "5", " ">>)}

FileSizes == {0, 1000, CHUNK + 1000}
FileRelInputs ==
    {[abs |-> FALSE, segs |-> <<"a.mp3">>],
     [abs |-> FALSE, segs |-> <<"sub", "..", "a.mp3">>],
     [abs |-> FALSE, segs |-> <<"gone.mp3">>],
     [abs |-> FALSE, segs |-> <<"..", "..", "..", "etc", "passwd">>],
     [abs |-> TRUE, segs |-> <<"etc", "passwd">>]}

\* An artist and a listener have registered; the storage root holds one
\* file of any of the sizes and /etc/passwd exists.
StreamInit ==
    /\ colUsers = {[id |-> 2, email |-> "a@x.io",
                    password |-> hashPassword(GoodPassword), role |-> "user"]}
    /\ colArtists = {[id |-> 1, username |-> "art",
                      password |-> hashPassword(GoodPassword)]}
    /\ colSessions = <<NewSession(1, generateRefresh(1), REFRESH_TTL_SEC, "absent", "artist"),
                       NewSession(2, generateRefresh(2), REFRESH_TTL_SEC, "absent", "user")>>
    /\ now = 0
    /\ nextId = 3
    /\ nextSecret = 3
    /\ tokens = {signAccess(1, "artist", 0), signAccess(2, "user", 0)}
    /\ authTasks = {}
    /\ lastResp = [Resp("register", 200, "") EXCEPT !.uid = 2, !.role = "user", !.owner = 2]
    /\ issued = {<<1, 1>>, <<2, 2>>}
    /\ fresh = {1, 2}
    /\ revoked = {}
    /\ WS_CLIENTS = {}
    /\ wsReady = [c \in Conns |-> "NONE"]
    /\ colStates = {}
    /\ syncTasks = {}
    /\ sent = NoSend
    /\ event = NoEvent
    /\ ops = 0
    /\ recorded = {}
    /\ colTracks = {}
    /\ \E size \in FileSizes :
          files = [p \in {STORE_DIR \o <<"a.mp3">>, <<"etc", "passwd">>} |->
                      IF p = <<"etc", "passwd">> THEN 7 ELSE size]
    /\ playsPending = [i \in 1..MaxTracks |-> 0]
    /\ streamResp = NoStreamResp
    /\ streams = 0

StreamStep ==
    \/ \E tok \in tokens \cup {ForgedToken}, f \in FileRelInputs : TrackCreate(tok, f)
    \/ \E tid \in 1..(MaxTracks + 1), hdr \in RangeInputs : StreamOpen(tid, hdr)
    \/ \E tid \in 1..MaxTracks, ok \in BOOLEAN : PlaysResolve(tid, ok)

StreamNext == StreamStep /\ UNCHANGED <<authVars, syncVars>>

SpecStream == StreamInit /\ [][StreamNext]_vars

\* ------------------------------------------------------------------------
\* Specification of the realtime channel and the player state
\* ------------------------------------------------------------------------

\* Two listeners have registered at time 0.
SyncInit ==
    /\ colUsers = {[id |-> 1, email |-> "a@x.io",
                    password |-> hashPassword(GoodPassword), role |-> "user"],
                   [id |-> 2, email |-> "b@x.io",
                    password |-> hashPassword(GoodPassword), role |-> "user"]}
    /\ colArtists = {}
    /\ colSessions = <<NewSession(1, generateRefresh(1), REFRESH_TTL_SEC, "absent", "user"),
                       NewSession(2, generateRefresh(2), REFRESH_TTL_SEC, "absent", "user")>>
    /\ now = 0
    /\ nextId = 3
    /\ nextSecret = 3
    /\ tokens = {signAccess(1, "user", 0), signAccess(2, "user", 0)}
    /\ authTasks = {}
    /\ lastResp = [Resp("register", 200, "") EXCEPT !.uid = 2, !.role = "user", !.owner = 2]
    /\ issued = {<<1, 1>>, <<2, 2>>}
    /\ fresh = {1, 2}
    /\ revoked = {}
    /\ WS_CLIENTS = {}
    /\ wsReady = [c \in Conns |-> "NONE"]
    /\ colStates = {}
    /\ syncTasks = {}
    /\ sent = NoSend
    /\ event = NoEvent
    /\ ops = 0
    /\ recorded = {}
    /\ StreamIdle

\* Inputs of the realtime channel: both listeners say hello, listener 1
\* also uses the HTTP player endpoints.
HelloTokens == tokens \cup {NoToken, ForgedToken}
PlayerTokens == {tok \in tokens : tok.uid = 1} \cup {ForgedToken}
NowPlayingInputs == {[trackId |-> "AAAA"], [trackId |-> "zzzz"]}
HttpStateInputs == {[deviceId |-> "dev1", trackId |-> "bbbb"]}

SyncStep ==
    \/ \E c \in Conns : WSOpen(c)
    \/ \E c \in Conns : WSClosing(c)
    \/ \E c \in Conns : WSClose(c)
    \/ \E c \in Conns, tok \in HelloTokens, dev \in Devices : HelloRecv(c, tok, dev)
    \/ \E t \in syncTasks : HelloAuth(t)
    \/ \E t \in syncTasks : HelloAck(t)
    \/ \E c \in Conns : Ping(c)
    \/ \E c \in Conns, msg \in NowPlayingInputs : NowPlayingRecv(c, msg)
    \/ \E t \in syncTasks : NowPlayingUpdate(t)
    \/ \E t \in syncTasks : NowPlayingBroadcast(t)
    \/ \E c \in Conns, to \in {"", "dev1"}, cmd \in CmdInputs : ControlRecv(c, to, cmd)
    \/ \E t \in syncTasks : ControlFind(t)
    \/ \E t \in syncTasks : ControlSend(t)
    \/ \E tok \in PlayerTokens, body \in HttpStateInputs : HttpStateUpdate(tok, body)
    \/ \E t \in syncTasks : HttpStateBroadcast(t)
    \/ \E tok \in PlayerTokens, d \in {"dev1"} : HttpActivateUpdate(tok, d)
    \/ \E t \in syncTasks : HttpActivateBroadcast(t)
    \/ \E tok \in PlayerTokens, cmd \in CmdInputs : HttpControlFind(tok, cmd)
    \/ \E t \in syncTasks : HttpControlSend(t)

SyncNext == SyncStep /\ UNCHANGED <<authVars, streamVars>>

SpecSync == SyncInit /\ [][SyncNext]_vars

\* ------------------------------------------------------------------------
\* Specification of the connection registry under fair scheduling
\* ------------------------------------------------------------------------

\* What the peers do: connect, start closing or drop, say hello, ping.
PeerStep ==
    \/ \E c \in Conns : WSOpen(c)
    \/ \E c \in Conns : WSClosing(c)
    \/ \E c \in Conns : wsReady[c] = "OPEN" /\ WSClose(c)
    \/ \E c \in Conns, tok \in HelloTokens, dev \in Devices : HelloRecv(c, tok, dev)
    \/ \E c \in Conns : Ping(c)

\* What the server does by itself: the event loop resumes a hello whose await
\* has resolved, and emits the close event of a socket that is closing.  The
\* server has no timer and sends no ping of its own.
ServerStep ==
    \/ \E t \in syncTasks : HelloAuth(t)
    \/ \E t \in syncTasks : HelloAck(t)
    \/ \E c \in Conns : wsReady[c] = "CLOSING" /\ WSClose(c)

LiveNext == (PeerStep \/ ServerStep) /\ UNCHANGED <<authVars, streamVars>>

SpecLive ==
    /\ SyncInit /\ [][LiveNext]_vars
    /\ WF_vars(ServerStep /\ UNCHANGED <<authVars, streamVars>>)

\* ------------------------------------------------------------------------
\* Specification of access tokens across login, logout and refresh
\* ------------------------------------------------------------------------

\* One identity made by the CLI; nobody has logged in.
RevokeInit ==
    /\ colUsers = {[id |-> 1, email |-> "a@x.io",
                    password |-> hashPassword(GoodPassword), role |-> "admin"]}
    /\ colArtists = {}
    /\ colSessions = <<>>
    /\ now = 0
    /\ nextId = 2
    /\ nextSecret = 1
    /\ tokens = {}
    /\ authTasks = {}
    /\ lastResp = NoResp
    /\ issued = {}
    /\ fresh = {}
    /\ revoked = {}
    /\ WS_CLIENTS = {}
    /\ wsReady = [c \in Conns |-> "NONE"]
    /\ colStates = {}
    /\ syncTasks = {}
    /\ sent = NoSend
    /\ event = NoEvent
    /\ ops = 0
    /\ recorded = {}
    /\ StreamIdle

BearerTokens == tokens \cup {ForgedToken}

RevokeAuthStep ==
    \/ LoginFind("a@x.io", GoodPassword)
    \/ \E t \in authTasks : LoginUpsertMatch(t)
    \/ \E t \in authTasks : LoginUpsertInsert(t)
    \/ Refresh(generateRefresh(1))
    \/ \E tok \in tokens : LogoutAuth(tok)
    \/ \E t \in authTasks : LogoutUpdate(t)
    \/ Tick(ACCESS_TTL_SEC)

RevokeSyncStep ==
    \/ WSOpen("c1")
    \/ \E tok \in BearerTokens : HelloRecv("c1", tok, "")
    \/ \E t \in syncTasks : HelloAuth(t)
    \/ \E t \in syncTasks : HelloAck(t)
    \/ \E tok \in BearerTokens : HttpGetState(tok)

RevokeNext ==
    \/ RevokeAuthStep /\ UNCHANGED <<syncVars, streamVars>>
    \/ RevokeSyncStep /\ UNCHANGED <<authVars, streamVars>>

SpecRevoke == RevokeInit /\ [][RevokeNext]_vars

\* ------------------------------------------------------------------------
\* Specification of the player state store: one connection, every field of
\* the state document
\* ------------------------------------------------------------------------
StateTokens == tokens \cup {ForgedToken}
StateNowPlayingInputs ==
    {[trackId |-> "AAAA", positionMs |-> 5000],
     [isPlaying |-> TRUE, deviceId |-> "dev2"],
     [positionMs |-> -1]}
StateHttpInputs ==
    {[deviceId |-> "dev1", trackId |-> "bbbb", isPlaying |-> FALSE],
     [deviceId |-> "dev2", positionMs |-> 0, queue |-> <<"AAAA", "bbbb">>,
      currentIndex |-> 1],
     [deviceId |-> "dev1", queue |-> <<"zzzz">>],
     [deviceId |-> "dev1", positionMs |-> MaxPositionMs + 1]}

StateStep ==
    \/ WSOpen("c1")
    \/ \E tok \in tokens : HelloRecv("c1", tok, "")
    \/ \E t \in syncTasks : HelloAuth(t)
    \/ \E t \in syncTasks : HelloAck(t)
    \/ \E msg \in StateNowPlayingInputs : NowPlayingRecv("c1", msg)
    \/ \E t \in syncTasks : NowPlayingUpdate(t)
    \/ \E t \in syncTasks : NowPlayingBroadcast(t)
    \/ \E tok \in StateTokens : HttpGetState(tok)
    \/ \E tok \in StateTokens, body \in StateHttpInputs : HttpStateUpdate(tok, body)
    \/ \E t \in syncTasks : HttpStateBroadcast(t)
    \/ \E tok \in StateTokens, d \in Devices : HttpActivateUpdate(tok, d)
    \/ \E t \in syncTasks : HttpActivateBroadcast(t)

StateNext == StateStep /\ UNCHANGED <<authVars, streamVars>>

SpecState == SyncInit /\ [][StateNext]_vars

\* ------------------------------------------------------------------------
\* Specification of the session manager
\* ------------------------------------------------------------------------
Init ==
    /\ colUsers = {}
    /\ colArtists = {}
    /\ colSessions = <<>>
    /\ now = 0
    /\ nextId = 1
    /\ nextSecret = 1
    /\ tokens = {}
    /\ authTasks = {}
    /\ lastResp = NoResp
    /\ issued = {}
    /\ fresh = {}
    /\ revoked = {}
    /\ WS_CLIENTS = {}
    /\ wsReady = [c \in Conns |-> "NONE"]
    /\ colStates = {}
    /\ syncTasks = {}
    /\ sent = NoSend
    /\ event = NoEvent
    /\ ops = 0
    /\ recorded = {}
    /\ StreamIdle

\* Refresh tokens a client may present: none, a number, a generated secret,
\* one never generated, and the first generated secret with its last 24
\* characters altered.
SecretInputs ==
    {NoSecret, NotAString} \cup [head : 1..(MaxSecrets + 1), tail : {0}]
                           \cup {[head |-> 1, tail |-> 1]}

AuthStep ==
    \/ \E e \in EmailInputs : RegisterFind(e)
    \/ \E t \in authTasks : RegisterInsertUser(t)
    \/ \E t \in authTasks : RegisterInsertSession(t)
    \/ \E e \in EmailInputs, pw \in PasswordInputs : LoginFind(e, pw)
    \/ \E t \in authTasks : LoginUpsertMatch(t)
    \/ \E t \in authTasks : LoginUpsertInsert(t)
    \/ \E n \in UsernameInputs : ArtistRegisterFind(n)
    \/ \E t \in authTasks : ArtistRegisterInsert(t)
    \/ \E t \in authTasks : ArtistRegisterInsertSession(t)
    \/ \E n \in UsernameInputs, pw \in PasswordInputs : ArtistLoginFind(n, pw)
    \/ \E t \in authTasks : ArtistLoginUpsertMatch(t)
    \/ \E t \in authTasks : ArtistLoginUpsertInsert(t)
    \/ \E raw \in SecretInputs : Refresh(raw)
    \/ \E tok \in tokens \cup {ForgedToken} : LogoutAuth(tok)
    \/ \E t \in authTasks : LogoutUpdate(t)
    \/ \E e \in EmailInputs : CliCreateAdmin(e)
    \/ \E t \in Clock : Tick(t)

Next == AuthStep /\ UNCHANGED <<syncVars, streamVars>>

Spec == Init /\ [][Next]_vars

\* ------------------------------------------------------------------------
\* Properties of the session manager
\* ------------------------------------------------------------------------

\* C1: a refresh with a secret that a login or registration returned, with no
\* logout or further login for that identity since, answers 200 with an
\* access token that verifies and names that identity; a refresh that presents
\* a secret differing from every generated secret answers 401 and carries no
\* token.
C1_LoginThenRefresh ==
    lastResp.kind = "refresh" =>
        /\ lastResp.clean =>
              /\ lastResp.status = 200
              /\ <<lastResp.head, lastResp.uid>> \in issued
              /\ \E tok \in tokens :
                    /\ tok.uid = lastResp.uid /\ tok.role = lastResp.role
                    /\ jwtVerify(tok, now)
        /\ (lastResp.presented /\ ~lastResp.genuine) =>
              /\ lastResp.status = 401
              /\ lastResp.uid = NoUid

C1_Witness ==
    /\ lastResp.kind = "refresh" /\ lastResp.clean /\ lastResp.status = 200
    /\ Len(colSessions) >= 2

\* C2: after a logout of a listener has completed, a refresh with a secret
\* issued to that listener before the logout fails with 401, until a later
\* login issues a new secret.
C2_RefreshAfterLogoutFails ==
    (lastResp.kind = "refresh" /\ lastResp.late) => lastResp.status = 401

\* C3: a refresh with a correct secret of a session that is not disabled but
\* is past its expiresAt fails with 401 and carries no token.
C3_ExpiredRefreshFails ==
    (lastResp.kind = "refresh" /\ lastResp.genuine /\ lastResp.expired) =>
        (lastResp.status = 401 /\ lastResp.uid = NoUid)

\* C4: after a state update of a listener from one of their devices, the
\* notification is not echoed to the originating device: the connection a
\* now_playing message came in on, or a connection carrying the deviceId of
\* a POST /api/player/state, is not among the recipients of player_state.
C4_NoEchoToOrigin ==
    sent.msg.type = "player_state" =>
        /\ event.op = "now_playing" => event.origin \notin sent.recipients
        /\ event.op = "httpState" =>
              \A c \in sent.recipients : Entry(c).deviceId # event.dev

\* C5: a player_state, active_device or control notification caused by a
\* listener is delivered only to connections authenticated as that listener.
C5_NoCrossListenerDelivery ==
    sent.msg.type \in {"player_state", "active_device", "control"} =>
        \A c \in sent.recipients : HasEntry(c) /\ Entry(c).uid = event.uid

\* A notification is delivered while another listener is connected too.
C5_Witness ==
    /\ sent.msg.type \in {"player_state", "active_device", "control"}
    /\ sent.recipients # {}
    /\ \E e \in WS_CLIENTS :
          e.uid \notin {NoUid, event.uid} /\ wsReady[e.id] = "OPEN"

\* C6: a control command is delivered only to connections of the listener
\* whose device identifier equals the target device.
C6_ControlOnlyToTarget ==
    sent.msg.type = "control" =>
        \A c \in sent.recipients :
            Entry(c).uid = event.uid /\ Entry(c).deviceId = event.target

\* C7: a control command over HTTP for a listener without a recorded active
\* device, or without a connection carrying the target device identifier, is
\* delivered to no one and is answered 400 'No active device'.
C7_NoTargetNoDelivery ==
    (/\ event.op = "httpControl"
     /\ event.status # 401
     /\ \/ event.target = ""
        \/ ~\E e \in WS_CLIENTS :
              e.uid = event.uid /\ e.deviceId = event.target /\ wsReady[e.id] = "OPEN")
    => (sent.recipients = {} /\ event.status = 400 /\ event.reply = "No active device")

\* C8: after any sequence of state updates, the one state document of a
\* listener holds, for every field, the value of the most recent update that
\* set the field; the first update creates the document.
C8_FieldwiseMerge ==
    \A r \in recorded :
        /\ Cardinality(FindState(r.uid)) = 1
        /\ \A d \in FindState(r.uid) :
              /\ DOMAIN r \subseteq DOMAIN d
              /\ \A f \in DOMAIN r : d[f] = r[f]

\* The document of listener 1 reflects three updates with different fields:
\* the track of one POST /api/player/state, the position and queue of
\* another, and an activation.
C8_Witness ==
    \E d \in colStates :
        /\ d.uid = 1
        /\ Has(d, "trackId") /\ d.trackId = "bbbb"
        /\ Has(d, "positionMs") /\ d.positionMs = 0
        /\ Has(d, "queue") /\ d.queue = <<"aaaa", "bbbb">>
        /\ Has(d, "activeDeviceId")

\* C9: a state read of a listener for whom no state update has been recorded
\* answers the default document (not playing, position 0, empty queue, index
\* 0) and stores no document.
C9_DefaultStateRead ==
    (/\ event.op = "getState" /\ event.status = 200
     /\ ~\E r \in recorded : r.uid = event.uid)
    => /\ event.state.uid = event.uid
       /\ event.state.isPlaying = FALSE
       /\ event.state.positionMs = 0
       /\ event.state.queue = <<>>
       /\ event.state.currentIndex = 0
       /\ FindState(event.uid) = {}

\* Listener 2 reads the state after listener 1 has recorded an update.
C9_Witness ==
    /\ event.op = "getState" /\ event.status = 200 /\ event.uid = 2
    /\ recorded # {}
    /\ ~\E r \in recorded : r.uid = 2

EntryUid(clients, c) ==
    IF \E e \in clients : e.id = c THEN (CHOOSE e \in clients : e.id = c).uid ELSE NoUid

\* C11: the registry entry of a connection acquires a uid only when the
\* identity lookup of a hello resolves whose access token was signed by the
\* server and names an existing identity; the entry of a closed connection
\* is gone and acquires nothing.
C11_OnlyHelloAuthenticates ==
    [][\A c \in Conns :
          /\ wsReady'[c] = "CLOSED" => EntryUid(WS_CLIENTS', c) = NoUid
          /\ (/\ EntryUid(WS_CLIENTS', c) # NoUid
              /\ EntryUid(WS_CLIENTS', c) # EntryUid(WS_CLIENTS, c)) =>
                \E t \in syncTasks :
                    /\ t.kind = "hello" /\ t.pc = "auth" /\ t.conn = c
                    /\ t.msg \in tokens
                    /\ t.uid = t.msg.uid
                    /\ EntryUid(WS_CLIENTS', c) = t.uid
                    /\ \E u \in colUsers \cup colArtists : u.id = t.uid
                    /\ wsReady[c] # "CLOSED"]_vars

\* One connection is authenticated and a hello on another connection has
\* just been answered authed: false, leaving it without uid.
C11_Witness ==
    /\ sent.msg.type = "hello_ack" /\ ~sent.msg.authed
    /\ \E c \in sent.recipients : EntryUid(WS_CLIENTS, c) = NoUid
    /\ \E e \in WS_CLIENTS : e.uid # NoUid

\* C12: a now_playing or control message received on a connection without
\* uid changes no state document, sends nothing to any connection (the
\* sender included) and leaves no handler pending; every state document,
\* pending now_playing or control handler and relayed message stems from an
\* authenticated connection.
C12_UnauthenticatedIgnored ==
    /\ [](/\ \A t \in syncTasks : t.kind \in {"now_playing", "control"} => t.uid # NoUid
          /\ \A d \in colStates : d.uid # NoUid
          /\ event.op \in {"now_playing", "control"} => event.uid # NoUid)
    /\ [][event'.op = "dropped" =>
             /\ EntryUid(WS_CLIENTS, event'.origin) = NoUid
             /\ colStates' = colStates
             /\ syncTasks' = syncTasks
             /\ WS_CLIENTS' = WS_CLIENTS
             /\ sent'.recipients = {}]_vars

\* A message is dropped while a state document exists and another connection
\* is authenticated with an open socket.
C12_Witness ==
    /\ event.op = "dropped"
    /\ colStates # {}
    /\ \E e \in WS_CLIENTS : e.uid # NoUid /\ wsReady[e.id] = "OPEN"

\* C13: for every file size and Range header the stream response is the
\* reference one: without header 200 and Content-Length = size; bytes=a-b
\* with a < size 206, the end capped to size - 1, Content-Range
\* a-end/size and Content-Length = end - a + 1; a >= size 416 without body;
\* a header that is not bytes=<digits>-<digits?> 416.
C13_StreamMatchesReference ==
    (streamResp.op = "stream" /\ streamResp.total >= 0) =>
        LET h == streamResp.header
            size == streamResp.total
        IN
        /\ h.kind = "none" =>
              streamResp.status = 200 /\ streamResp.length = size
        /\ (h.kind = "closed" /\ h.start < size) =>
              LET e == IF h.end < size - 1 THEN h.end ELSE size - 1 IN
              /\ streamResp.status = 206
              /\ streamResp.range = [start |-> h.start, end |-> e, total |-> size]
              /\ streamResp.length = e - h.start + 1
        /\ (h.kind \in {"closed", "open"} /\ h.start >= size) =>
              streamResp.status = 416 /\ streamResp.body = NoBody
        /\ h.kind = "malformed" =>
              streamResp.status = 416 /\ streamResp.body = NoBody

\* C14: a Range header without end and with start < size is answered 206
\* with end = min(start + 1 MiB - 1, size - 1): at most 1 MiB is served and
\* nothing past the end of the file.
C14_OpenRangeIsCapped ==
    (/\ streamResp.op = "stream" /\ streamResp.total >= 0
     /\ streamResp.header.kind = "open"
     /\ streamResp.header.start < streamResp.total) =>
        LET a == streamResp.header.start
            size == streamResp.total
            e == IF a + 1048576 - 1 < size - 1 THEN a + 1048576 - 1 ELSE size - 1
        IN
        /\ streamResp.status = 206
        /\ streamResp.range = [start |-> a, end |-> e, total |-> size]
        /\ streamResp.length = e - a + 1
        /\ streamResp.length <= 1048576
        /\ streamResp.body.start = a /\ streamResp.body.end = e
        /\ streamResp.body.end <= size - 1

\* bytes=0- on a file larger than 1 MiB is answered with the first MiB.
C14_Witness ==
    /\ streamResp.op = "stream" /\ streamResp.status = 206
    /\ streamResp.header.kind = "open" /\ streamResp.header.start = 0
    /\ streamResp.total > 1048576
    /\ streamResp.length = 1048576

\* C15: the stream endpoint serves no file outside the storage root: a 200
\* or 206 response pipes a file below STORE_DIR.
C15_NoPathEscape ==
    (streamResp.op = "stream" /\ streamResp.status \in {200, 206}) =>
        InStore(streamResp.body.path)

\* C16: a stream request answered 200 or 206 starts exactly one play-count
\* update for its track and any other answer starts none; when an update
\* resolves or rejects the response stays as it was sent, and the counter
\* grows by one or not at all.
C16_PlaysFireAndForget ==
    [][/\ streams' = streams + 1 =>
             /\ colTracks' = colTracks
             /\ streamResp'.status \in {200, 206} =>
                   playsPending' = [playsPending EXCEPT ![streamResp'.tid] = @ + 1]
             /\ streamResp'.status \notin {200, 206} => playsPending' = playsPending
       /\ (\E i \in DOMAIN playsPending : playsPending'[i] < playsPending[i]) =>
             /\ streamResp' = streamResp
             /\ \A t \in colTracks : \E u \in colTracks' :
                   /\ u.id = t.id /\ u.fileRel = t.fileRel
                   /\ u.plays \in {t.plays, t.plays + 1}
                   /\ u.plays # t.plays => playsPending'[t.id] < playsPending[t.id]]_vars

\* Two successful opens of a track, one update applied and one rejected, and
\* the last response still is the 206 that was sent.
C16_Witness ==
    /\ streams = 2 /\ streamResp.op = "stream" /\ streamResp.status = 206
    /\ \E t \in colTracks :
          t.id = streamResp.tid /\ t.plays = 1 /\ playsPending[t.id] = 0

\* C17: after any interleaving of register, login and logout requests the
\* sessions collection holds at most one document per identity.
C17_OneSessionPerListener ==
    \A i \in 1..Len(colSessions), j \in 1..Len(colSessions) :
        colSessions[i].uid = colSessions[j].uid => i = j

\* C18: at any time at most one refresh secret per identity is accepted:
\* when no request is in flight, the secrets returned to clients that a
\* refresh would answer 200 to are at most one per identity.
C18_OneAcceptedSecret ==
    authTasks = {} =>
        \A p \in issued, q \in issued :
            (/\ p[2] = q[2]
             /\ RefreshAccepts(generateRefresh(p[1]))
             /\ RefreshAccepts(generateRefresh(q[1]))) => p = q

\* C19: a refresh, answered 200 or not, leaves every session document as it
\* was, and a refresh with the secret of the 200 just answered is answered
\* 200 again.
C19_RefreshLeavesSession ==
    [][lastResp'.kind = "refresh" =>
          /\ colSessions' = colSessions
          /\ (/\ lastResp.kind = "refresh" /\ lastResp.status = 200
              /\ lastResp'.genuine /\ lastResp'.head = lastResp.head)
             => lastResp'.status = 200]_vars

\* A refresh at ACCESS_TTL_SEC is answered 200 with the secret of a session
\* written at 0; the session document is there as it was written.
C19_Witness ==
    /\ lastResp.kind = "refresh" /\ lastResp.status = 200
    /\ now = ACCESS_TTL_SEC
    /\ [uid |-> lastResp.uid, role |-> lastResp.role, exp |-> 2 * ACCESS_TTL_SEC] \in tokens
    /\ \E i \in 1..Len(colSessions) :
          /\ colSessions[i].refreshFp = fpToken(generateRefresh(lastResp.head))
          /\ colSessions[i].refreshHash = hashToken(generateRefresh(lastResp.head))
          /\ colSessions[i].expiresAt = REFRESH_TTL_SEC
          /\ colSessions[i].disabled # "true"

\* C20: every refresh with a presented secret that must fail (never issued,
\* issued before a logout, expired, not a string) gets the same answer.
C20_UniformRefreshFailure ==
    (/\ lastResp.kind = "refresh" /\ lastResp.presented
     /\ (~lastResp.genuine \/ lastResp.expired \/ lastResp.status # 200))
    => (lastResp.status = 401 /\ lastResp.error = "Invalid session")

\* C21: a registration is answered 200, or 409 when its identifier (compared
\* in lower case) exists already, in every interleaving; no registration that
\* loses to a concurrent one for the same identifier gets another answer.
C21_DuplicateRegisterConflicts ==
    lastResp.kind \in {"register", "artistRegister"} =>
        /\ lastResp.status \in {200, 409}
        /\ \A u \in colUsers, v \in colUsers : u.email = v.email => u = v
        /\ \A a \in colArtists, b \in colArtists : a.username = b.username => a = b

\* C22: the registry holds an entry for a connection exactly while its socket
\* has opened and its close event has not been emitted, whatever handlers are
\* still in flight for it, and nothing is sent to a socket that is not open.
C22_EntryLivesWithSocket ==
    /\ \A c \in Conns : HasEntry(c) <=> wsReady[c] \in {"OPEN", "CLOSING"}
    /\ \A c \in sent.recipients : wsReady[c] = "OPEN"

\* A connection closed while its hello was waiting for the identity lookup,
\* and a player_state broadcast has been sent since.
C22_Witness ==
    /\ sent.msg.type = "player_state" /\ sent.recipients # {}
    /\ \E c \in Conns :
          /\ wsReady[c] = "CLOSED" /\ ~HasEntry(c)
          /\ \E t \in syncTasks : t.conn = c /\ t.kind = "hello" /\ t.pc = "auth"

\* C23: under fair scheduling of the server, an open connection whose peer
\* sends nothing more (no pong, no message, no close) is eventually closed by
\* the server and its registry entry removed.
C23_SilentPeerIsClosed ==
    \A c \in Conns : (wsReady[c] = "OPEN") ~> (wsReady[c] = "CLOSED" /\ ~HasEntry(c))

\* C24: every step that writes a playback-state document (POST player/state,
\* POST player/activate, now_playing) leaves it with updatedBy equal to the
\* device the write names.
C24_WritesCarryUpdatedBy ==
    [][\A d \in colStates' \ colStates :
          \E t \in syncTasks' \ syncTasks :
             /\ t.uid = d.uid /\ t.pc = "broadcast"
             /\ Field(d, "updatedBy", "") =
                   (IF t.kind = "now_playing" THEN t.patch.updatedBy ELSE t.dev)]_vars

\* C25: whatever logins, logouts and refreshes have happened, a request with
\* an access token the server signed that has not expired is answered by GET
\* player/state with 200 for the token's listener, and a hello with such a
\* token is acknowledged authed.
C25_LogoutKeepsAccessTokens ==
    (event.tok \in tokens /\ now < event.tok.exp) =>
        /\ event.op = "getState" => (event.status = 200 /\ event.uid = event.tok.uid)
        /\ (event.op = "hello" /\ sent.msg.type = "hello_ack") => sent.msg.authed

\* The listener has logged out (every session is disabled, a refresh would be
\* refused) and the token signed at the login is accepted by GET player/state
\* while a hello with it is being authenticated.
C25_Witness ==
    /\ event.op = "getState" /\ event.status = 200 /\ event.tok \in tokens
    /\ revoked # {} /\ SessByUid(event.uid) # {}
    /\ \A i \in SessByUid(event.uid) : colSessions[i].disabled = "true"
    /\ \A h \in 1..MaxSecrets : ~RefreshAccepts(generateRefresh(h))
    /\ \E t \in syncTasks : t.kind = "hello" /\ t.pc = "auth" /\ t.msg = event.tok

\* C26: every access token the server has signed (at register, login or
\* refresh) carries the role stored for its identity: the role field of the
\* user document, artist for a document of artists.
C26_TokenRoleIsStoredRole ==
    \A tok \in tokens :
        /\ \A u \in colUsers : u.id = tok.uid => tok.role = u.role
        /\ \A a \in colArtists : a.id = tok.uid => tok.role = "artist"

\* C27: every 206 has 0 <= start <= end < file size, Content-Length
\* end - start + 1 >= 1 and a body of exactly these bytes; a Range whose end
\* is smaller than its start is never answered 206.
C27_PartialContentIsWellFormed ==
    /\ streamResp.status = 206 =>
          /\ 0 <= streamResp.range.start
          /\ streamResp.range.start <= streamResp.range.end
          /\ streamResp.range.end < streamResp.total
          /\ streamResp.range.total = streamResp.total
          /\ streamResp.length = streamResp.range.end - streamResp.range.start + 1
          /\ streamResp.length >= 1
          /\ streamResp.body.start = streamResp.range.start
          /\ streamResp.body.end = streamResp.range.end
    /\ (/\ streamResp.op = "stream" /\ streamResp.header.kind = "closed"
        /\ streamResp.header.end < streamResp.header.start) => streamResp.status # 206

\* A Range whose end is below its start, both inside the file, has been
\* answered.
C27_Witness ==
    /\ streamResp.op = "stream" /\ streamResp.header.kind = "closed"
    /\ streamResp.header.end < streamResp.header.start
    /\ streamResp.header.start < streamResp.total
    /\ streamResp.status = 400

\* C28: when a hello_ack is sent to a connection that has no other hello in
\* flight, its authed value tells whether the registry entry of that
\* connection has a listener.
C28_AckMatchesRegistry ==
    (sent.msg.type = "hello_ack" /\ sent.recipients # {}) =>
        \A c \in sent.recipients :
            (~\E t \in syncTasks : t.kind = "hello" /\ t.conn = c) =>
                (sent.msg.authed <=> (EntryUid(WS_CLIENTS, c) # NoUid))

\* C29: player_state broadcasts reach a connection in the order of the writes:
\* when the last state update of a listener has been broadcast to another
\* connection and none is in flight, every field of that broadcast has in
\* the store the value that broadcast's write gave it.
C29_BroadcastOrderIsWriteOrder ==
    (/\ sent.msg.type = "player_state"
     /\ sent.recipients \ {event.origin} # {}
     /\ ~\E t \in syncTasks : t.uid = event.uid /\ t.kind \in {"now_playing", "httpState"})
    => \A d \in FindState(event.uid) :
          \A f \in DOMAIN sent.msg.state \cap DOMAIN event.written :
              Field(d, f, "") = event.written[f]

\* C30: positionMs of every playback-state document is an integer in
\* 0..86,400,000, whichever handler wrote it.
C30_StoredPositionInRange ==
    \A d \in colStates : Has(d, "positionMs") => d.positionMs \in 0..MaxPositionMs

====
